---------------------------- MODULE Spec2Model ----------------------------
(***************************************************************************)
(* go-req: an HTTP load generator.  This module models the buffered-queue  *)
(* variant (src/unnamed/part_000): the dispatch loop in main, the rate     *)
(* limiter that gates admission, the doRequest goroutines (Request         *)
(* Executors) and the two outcome channels.                                *)
(*                                                                         *)
(* Granularity.  Every action holds at most one access to state that is    *)
(* shared between goroutines (a channel operation, a goroutine launch, a   *)
(* process exit, a read of the clock) together with the goroutine-local    *)
(* statements that follow it.  Time is a discrete clock: one tick is half  *)
(* a second.                                                               *)
(***************************************************************************)
EXTENDS Integers, Sequences, FiniteSets, TLC

\* ------------------------------------------------------------------ bounds
\* The clock stops advancing at MaxTime ticks.
MaxTime == 4
\* Capacity of each outcome channel in the model.  The program uses 100
\* (make(chan ..., 100)); the model scales it down so that a full channel and
\* a blocked sender are reachable with the few executors the clock admits.
ChanCap == 1

\* Longest sequence of latency samples handed to printMetrics on its own.
MaxSamples == 4
\* Longest list of error categories handed to printMetrics on its own.
MaxErrs == 3

\* ------------------------------------------------------- program constants
\* 1*time.Second in ticks (the render period of the dispatch loop).
Second == 2
\* Burst of the limiter: rate.NewLimiter(rate.Limit(*rps), 1).
Burst == 1

\* ------------------------------------------------------------ input domains
\* 1/rps in ticks: the time the limiter needs to refill one token.
Intervals == {2, 3}
\* --duration in ticks; 0 is the flag's default (run forever).
Durations == {0, 3}
\* --address: one URL http.NewRequest accepts and one it rejects.
Addresses == {"http://target", "://unparsable"}
\* Header strings as sequences of characters.
HGood == <<"k", ":", "v">>
HNoColon == <<"k", "v">>
HTwoColons == <<"k", ":", "v", ":", "w">>
\* --headers: the lists of header strings a run may be started with.
HeaderLists == {<<HGood>>, <<HGood, HNoColon>>, <<HTwoColons>>}
\* What client.Do can come back with: a transport error (nil response), an
\* error of the redirect policy (non-nil response with its body closed), or
\* a response with a status code.
NetResults == {"transport", "redirect", "200", "500"}

MinInterval == CHOOSE i \in Intervals : \A j \in Intervals : i <= j
\* The limiter admits at most once per interval, so no run launches more
\* executors than this.
MaxExec == 1 + (MaxTime \div MinInterval)
Execs == 1..MaxExec

Min(a, b) == IF a <= b THEN a ELSE b

\* ------------------------------------------------------------------- state
VARIABLES
    \* configuration (flags), fixed after startup
    interval, duration, address, headers,
    \* the clock
    now,
    \* main's locals
    started, lastPrint, requests, limiter,
    successChannel, successCount, successDurations,
    errorsChannel, errorCount, errors,
    \* position of the dispatch loop inside one iteration
    pc,
    \* the process: "running", "exit0", "exit1" or "panic"
    proc,
    \* the doRequest goroutines, by launch order
    ex,
    \* history: sends performed by and outcomes ingested from each executor,
    \* and the time of the latest launch
    sent, consumed, prevAdmit,
    \* history: inside the default branch, the number of outcomes that had
    \* been sent when the select of this iteration polled the channels
    polled,
    \* what the latest printMetrics call wrote to the terminal
    display

vars == <<interval, duration, address, headers, now, started, lastPrint,
          requests, limiter, successChannel, successCount, successDurations,
          errorsChannel, errorCount, errors, pc, proc, ex, sent, consumed,
          prevAdmit, polled, display>>

config == <<interval, duration, address, headers>>
sampler == <<successCount, successDurations, errorCount, errors>>
channels == <<successChannel, errorsChannel>>
history == <<sent, consumed, prevAdmit, polled>>

\* What an executor holds to deliver: a Success with its latency, a Failure
\* with its category, or nothing yet.
NoOutcome == [kind |-> "none", lat |-> 0, msg |-> ""]
Success(d) == [kind |-> "ok", lat |-> d, msg |-> ""]
Failure(m) == [kind |-> "err", lat |-> 0, msg |-> m]

Idle == [st |-> "idle", start |-> 0, out |-> NoOutcome]

\* ------------------------------------------------------------------- helpers
\* len(strings.Split(header, ":")): one more than the number of separators.
SplitLen(header) == 1 + Cardinality({i \in DOMAIN header : header[i] = ":"})

\* The header loop of doRequest reaches os.Exit(1).
MalformedHeader(hs) == \E i \in DOMAIN hs : SplitLen(hs[i]) # 2

\* http.NewRequest("GET", url, nil) returns an error.
NewRequestFails(url) == url = "://unparsable"

\* Insert x into the ascending sequence s.
RECURSIVE Insert(_, _)
Insert(x, s) ==
    IF s = << >> THEN <<x>>
    ELSE IF x <= Head(s) THEN <<x>> \o s
    ELSE <<Head(s)>> \o Insert(x, Tail(s))

\* The samples left in arrival order.
SortSkipped(s) == s

\* slices.Sort
RECURSIVE Sort(_)
Sort(s) == IF s = << >> THEN << >> ELSE Insert(Head(s), Sort(Tail(s)))

\* rate.Limiter: the tokens at time t, in units of 1/interval of a token.
Advance(lim, t) == Min(Burst * interval, lim.tokens + (t - lim.last))

\* limiter.Allow() at time t: whether a whole token is available.
AllowOk(lim, t) == Advance(lim, t) >= interval

\* The limiter after a successful Allow at time t.
Take(lim, t) == [tokens |-> Advance(lim, t) - interval, last |-> t]

\* The least integer k with k * d >= n, for d > 0 (math.Ceil of n/d).
Ceil(n, d) == IF n >= 0 THEN (n + d - 1) \div d ELSE -((-n) \div d)

\* The index taken as int(p*n), without the ceiling and the step back.
percentileTruncated(durations, p) ==
    IF Len(durations) = 0 THEN 0
    ELSE LET idx == (p * Len(durations)) \div 100
             lo == IF idx < 0 THEN 0 ELSE idx
             hi == IF lo >= Len(durations) THEN Len(durations) - 1 ELSE lo
         IN durations[hi + 1]

\* percentile(durations, p), with p given in hundredths.  The product
\* p*float64(len) is exact up to the rounding of float64, and its Ceil is
\* that of the exact product for p in {0.50, 0.90, 0.95, 0.99} at every
\* length up to 200,000.  Indices of the code are 0-based.
percentile(durations, p) ==
    IF Len(durations) = 0 THEN 0
    ELSE LET idx == Ceil(p * Len(durations), 100) - 1
             lo == IF idx < 0 THEN 0 ELSE idx
             hi == IF lo >= Len(durations) THEN Len(durations) - 1 ELSE lo
         IN durations[hi + 1]

\* errorMap[err] = 1 in place of errorMap[err]++.
IncrOverwrite(errorMap, err) ==
    {e \in errorMap : e[1] # err} \cup {<<err, 1>>}

\* errorMap[err]++ on a map kept as a set of <<category, count>> pairs.
Incr(errorMap, err) ==
    IF \E e \in errorMap : e[1] = err
    THEN LET old == CHOOSE e \in errorMap : e[1] = err
         IN (errorMap \ {old}) \cup {<<err, old[2] + 1>>}
    ELSE errorMap \cup {<<err, 1>>}

\* for _, err := range errors { errorMap[err]++ }
RECURSIVE Tally(_, _)
Tally(errs, errorMap) ==
    IF errs = << >> THEN errorMap
    ELSE Tally(Tail(errs), Incr(errorMap, Head(errs)))

\* for _, d := range successDurations { avg += d }
RECURSIVE Sum(_)
Sum(s) == IF s = << >> THEN 0 ELSE Head(s) + Sum(Tail(s))

\* The sum of the samples, never divided by their number.
AverageNotDivided(durations) ==
    IF Len(durations) > 0 THEN Sum(durations) ELSE 0

\* avg of printMetrics: zero, or the sum divided by the length (integer
\* division of time.Duration).
Average(durations) ==
    IF Len(durations) > 0 THEN Sum(durations) \div Len(durations) ELSE 0

\* The terminal before the first printMetrics call.
Blank == [shown |-> FALSE, errorLines |-> {}, requests |-> 0,
          successCount |-> 0, errorCount |-> 0, avg |-> 0, latency |-> FALSE,
          p99 |-> 0, p95 |-> 0, p90 |-> 0]

\* What printMetrics logs: one line per error category (in the order of
\* Go's map iteration, kept here as a set), the metrics line, and with
\* printTimes the latency line.  avg, p99, p95 and p90 are the values
\* handed to Round(time.Millisecond) for printing, in the unit of the
\* samples; elapsed time and the rps figure are left out.
printMetrics(req, sCount, eCount, sDurations, errs, printTimes) ==
    LET sorted == Sort(sDurations) IN
    [shown |-> TRUE,
     errorLines |-> IF Len(errs) > 0 THEN Tally(errs, {}) ELSE {},
     requests |-> req,
     successCount |-> sCount,
     errorCount |-> eCount,
     avg |-> Average(sorted),
     latency |-> printTimes,
     p99 |-> IF printTimes THEN percentile(sorted, 99) ELSE 0,
     p95 |-> IF printTimes THEN percentile(sorted, 95) ELSE 0,
     p90 |-> IF printTimes THEN percentile(sorted, 90) ELSE 0]

\* Outcomes sent so far by all executors.
RECURSIVE SumOver(_, _)
SumOver(f, S) ==
    IF S = {} THEN 0
    ELSE LET x == CHOOSE y \in S : TRUE IN f[x] + SumOver(f, S \ {x})

TotalSent == SumOver(sent, DOMAIN sent)

Running == proc = "running"

\* -------------------------------------------------------------------- Init
Init ==
    /\ interval \in Intervals
    /\ duration \in Durations
    /\ address \in Addresses
    /\ headers \in HeaderLists
    /\ now = 0
    /\ started = 0
    /\ lastPrint = 0
    /\ requests = 0
    /\ limiter = [tokens |-> Burst * interval, last |-> 0]
    /\ successChannel = << >>
    /\ successCount = 0
    /\ successDurations = << >>
    /\ errorsChannel = << >>
    /\ errorCount = 0
    /\ errors = << >>
    /\ pc = "select"
    /\ proc = "running"
    /\ ex = [e \in Execs |-> Idle]
    /\ sent = [e \in Execs |-> 0]
    /\ consumed = [e \in Execs |-> 0]
    /\ prevAdmit = 0
    /\ polled = 0
    /\ display = Blank

\* ------------------------------------------------------------ the clock
Tick ==
    /\ Running
    /\ now < MaxTime
    /\ now' = now + 1
    /\ UNCHANGED <<config, started, lastPrint, requests, limiter, channels,
                   sampler, pc, proc, ex, history, display>>

\* ------------------------------------------------------- the dispatch loop
\* case duration := <-successChannel
RecvSuccess ==
    /\ Running
    /\ pc = "select"
    /\ successChannel # << >>
    /\ LET m == Head(successChannel) IN
        /\ successChannel' = Tail(successChannel)
        /\ successDurations' = Append(successDurations, m.v)
        /\ successCount' = successCount + 1
        /\ consumed' = [consumed EXCEPT ![m.id] = @ + 1]
    /\ UNCHANGED <<config, now, started, lastPrint, requests, limiter,
                   errorsChannel, errorCount, errors, pc, proc, ex, sent,
                   prevAdmit, polled, display>>

\* case errMsg := <-errorsChannel
RecvError ==
    /\ Running
    /\ pc = "select"
    /\ errorsChannel # << >>
    /\ LET m == Head(errorsChannel) IN
        /\ errorsChannel' = Tail(errorsChannel)
        /\ errorCount' = errorCount + 1
        /\ errors' = Append(errors, m.v)
        /\ consumed' = [consumed EXCEPT ![m.id] = @ + 1]
    /\ UNCHANGED <<config, now, started, lastPrint, requests, limiter,
                   successChannel, successCount, successDurations, pc, proc,
                   ex, sent, prevAdmit, polled, display>>

\* A select without its default case: with nothing to receive it blocks.
SelectNoDefault ==
    /\ Running
    /\ pc = "select"
    /\ FALSE
    /\ UNCHANGED vars

\* The default branch taken whether or not an outcome is ready.
SelectDefaultUnguarded ==
    /\ Running
    /\ pc = "select"
    /\ pc' = "admit"
    /\ polled' = TotalSent
    /\ UNCHANGED <<config, now, started, lastPrint, requests, limiter,
                   channels, sampler, proc, ex, sent, consumed, prevAdmit,
                   display>>

\* default: taken only when neither channel has an outcome ready
SelectDefault ==
    /\ Running
    /\ pc = "select"
    /\ successChannel = << >>
    /\ errorsChannel = << >>
    /\ pc' = "admit"
    /\ polled' = TotalSent
    /\ UNCHANGED <<config, now, started, lastPrint, requests, limiter,
                   channels, sampler, proc, ex, sent, consumed, prevAdmit,
                   display>>

\* Admit without the requests++ of line 68.
AdmitNoCount ==
    /\ Running
    /\ pc = "admit"
    /\ IF AllowOk(limiter, now)
       THEN /\ limiter' = Take(limiter, now)
            /\ ex' = [ex EXCEPT ![requests + 1] =
                         [st |-> "new", start |-> 0, out |-> NoOutcome]]
       ELSE UNCHANGED <<limiter, ex>>
    /\ pc' = "render"
    /\ UNCHANGED <<config, now, started, lastPrint, requests, channels,
                   sampler, proc, history, display>>

\* Admit that launches whatever limiter.Allow() answers.
AdmitUngated ==
    /\ Running
    /\ pc = "admit"
    /\ requests < MaxExec
    /\ limiter' = Take(limiter, now)
    /\ ex' = [ex EXCEPT ![requests + 1] =
                 [st |-> "new", start |-> 0, out |-> NoOutcome]]
    /\ requests' = requests + 1
    /\ prevAdmit' = now
    /\ pc' = "render"
    /\ UNCHANGED <<config, now, started, lastPrint, channels, sampler, proc,
                   sent, consumed, polled, display>>

\* if limiter.Allow() { go doRequest(...); requests++ }
Admit ==
    /\ Running
    /\ pc = "admit"
    /\ IF AllowOk(limiter, now)
       THEN /\ limiter' = Take(limiter, now)
            /\ ex' = [ex EXCEPT ![requests + 1] =
                         [st |-> "new", start |-> 0, out |-> NoOutcome]]
            /\ requests' = requests + 1
            /\ prevAdmit' = now
       ELSE UNCHANGED <<limiter, ex, requests, prevAdmit>>
    /\ pc' = "render"
    /\ UNCHANGED <<config, now, started, lastPrint, channels, sampler, proc,
                   sent, consumed, polled, display>>

\* The periodic render calling printMetrics with printTimes true.
RenderCheckWithTimes ==
    /\ Running
    /\ pc = "render"
    /\ IF now - lastPrint <= Second
       THEN /\ successDurations' = Sort(successDurations)
            /\ display' = printMetrics(requests, successCount, errorCount,
                                       successDurations, errors, TRUE)
            /\ pc' = "stamp"
       ELSE /\ pc' = "stop"
            /\ UNCHANGED <<successDurations, display>>
    /\ UNCHANGED <<config, now, started, lastPrint, requests, limiter,
                   channels, successCount, errorCount, errors, proc, ex,
                   history>>

\* if time.Since(lastPrint) <= 1*time.Second { printMetrics(..., false)
RenderCheck ==
    /\ Running
    /\ pc = "render"
    /\ IF now - lastPrint <= Second
       THEN /\ successDurations' = Sort(successDurations)
            /\ display' = printMetrics(requests, successCount, errorCount,
                                       successDurations, errors, FALSE)
            /\ pc' = "stamp"
       ELSE /\ pc' = "stop"
            /\ UNCHANGED <<successDurations, display>>
    /\ UNCHANGED <<config, now, started, lastPrint, requests, limiter,
                   channels, successCount, errorCount, errors, proc, ex,
                   history>>

\* lastPrint = time.Now() }
Stamp ==
    /\ Running
    /\ pc = "stamp"
    /\ lastPrint' = now
    /\ pc' = "stop"
    /\ UNCHANGED <<config, now, started, requests, limiter, channels,
                   sampler, proc, ex, history, display>>

\* if *duration > 0 && time.Since(started) > *duration {
\*     printMetrics(..., true); os.Exit(0) }
StopCheck ==
    /\ Running
    /\ pc = "stop"
    /\ IF duration > 0 /\ now - started > duration
       THEN /\ successDurations' = Sort(successDurations)
            /\ display' = printMetrics(requests, successCount, errorCount,
                                       successDurations, errors, TRUE)
            /\ proc' = "exit0"
            /\ UNCHANGED <<pc, polled>>
       ELSE /\ pc' = "select"
            /\ polled' = 0
            /\ UNCHANGED <<successDurations, proc, display>>
    /\ UNCHANGED <<config, now, started, lastPrint, requests, limiter,
                   channels, successCount, errorCount, errors, ex, sent,
                   consumed, prevAdmit>>

\* ------------------------------------------------------------- doRequest
\* From the goroutine's start to its first blocking point: NewRequest, the
\* header loop, and the call of client.Do.
Start(e) ==
    /\ Running
    /\ ex[e].st = "new"
    /\ IF NewRequestFails(address)
       THEN /\ ex' = [ex EXCEPT ![e] = [st |-> "send", start |-> 0,
                         out |-> Failure("Error creating request")]]
            /\ UNCHANGED proc
       ELSE IF MalformedHeader(headers)
       THEN /\ proc' = "exit1"
            /\ UNCHANGED ex
       ELSE /\ ex' = [ex EXCEPT ![e] = [st |-> "net", start |-> now,
                                        out |-> NoOutcome]]
            /\ UNCHANGED proc
    /\ UNCHANGED <<config, now, started, lastPrint, requests, limiter,
                   channels, sampler, pc, history, display>>

\* client.Do returns r; io.Copy(io.Discard, resp.Body); classification.
Respond(e, r) ==
    /\ Running
    /\ ex[e].st = "net"
    /\ CASE r = "transport" ->
              \* resp is nil: resp.Body panics before err is looked at
              /\ proc' = "panic"
              /\ ex' = [ex EXCEPT ![e].st = "panicked"]
         [] r = "redirect" ->
              /\ ex' = [ex EXCEPT ![e] = [st |-> "send", start |-> 0,
                           out |-> Failure("Error making request")]]
              /\ UNCHANGED proc
         [] r = "200" ->
              /\ ex' = [ex EXCEPT ![e] = [st |-> "send", start |-> 0,
                           out |-> Success(now - ex[e].start)]]
              /\ UNCHANGED proc
         [] OTHER ->
              /\ ex' = [ex EXCEPT ![e] = [st |-> "send", start |-> 0,
                           out |-> Failure(r)]]
              /\ UNCHANGED proc
    /\ UNCHANGED <<config, now, started, lastPrint, requests, limiter,
                   channels, sampler, pc, history, display>>

\* Deliver without the return after a send on errorsChannel: the goroutine
\* falls through to the send on successChannel.
DeliverFallThrough(e) ==
    /\ Running
    /\ ex[e].st = "send"
    /\ IF ex[e].out.kind = "ok"
       THEN /\ Len(successChannel) < ChanCap
            /\ successChannel' =
                   Append(successChannel, [id |-> e, v |-> ex[e].out.lat])
            /\ ex' = [ex EXCEPT ![e] =
                         [st |-> "done", start |-> 0, out |-> NoOutcome]]
            /\ UNCHANGED errorsChannel
       ELSE /\ Len(errorsChannel) < ChanCap
            /\ errorsChannel' =
                   Append(errorsChannel, [id |-> e, v |-> ex[e].out.msg])
            /\ ex' = [ex EXCEPT ![e].out = Success(0)]
            /\ UNCHANGED successChannel
    /\ sent' = [sent EXCEPT ![e] = @ + 1]
    /\ UNCHANGED <<config, now, started, lastPrint, requests, limiter,
                   sampler, pc, proc, consumed, prevAdmit, polled, display>>

\* Deliver that does not wait for room: on a full channel the newest queued
\* outcome is overwritten.
Put(ch, m) == IF Len(ch) < ChanCap THEN Append(ch, m)
              ELSE [ch EXCEPT ![Len(ch)] = m]

DeliverOverwrite(e) ==
    /\ Running
    /\ ex[e].st = "send"
    /\ IF ex[e].out.kind = "ok"
       THEN /\ successChannel' =
                   Put(successChannel, [id |-> e, v |-> ex[e].out.lat])
            /\ UNCHANGED errorsChannel
       ELSE /\ errorsChannel' =
                   Put(errorsChannel, [id |-> e, v |-> ex[e].out.msg])
            /\ UNCHANGED successChannel
    /\ sent' = [sent EXCEPT ![e] = @ + 1]
    /\ ex' = [ex EXCEPT ![e] = [st |-> "done", start |-> 0, out |-> NoOutcome]]
    /\ UNCHANGED <<config, now, started, lastPrint, requests, limiter,
                   sampler, pc, proc, consumed, prevAdmit, polled, display>>

\* errorsChannel <- ... ; return   /   successChannel <- elapsed
\* A send on a full channel blocks: the action is not enabled.
Deliver(e) ==
    /\ Running
    /\ ex[e].st = "send"
    /\ IF ex[e].out.kind = "ok"
       THEN /\ Len(successChannel) < ChanCap
            /\ successChannel' =
                   Append(successChannel, [id |-> e, v |-> ex[e].out.lat])
            /\ UNCHANGED errorsChannel
       ELSE /\ Len(errorsChannel) < ChanCap
            /\ errorsChannel' =
                   Append(errorsChannel, [id |-> e, v |-> ex[e].out.msg])
            /\ UNCHANGED successChannel
    /\ sent' = [sent EXCEPT ![e] = @ + 1]
    /\ ex' = [ex EXCEPT ![e] = [st |-> "done", start |-> 0, out |-> NoOutcome]]
    /\ UNCHANGED <<config, now, started, lastPrint, requests, limiter,
                   sampler, pc, proc, consumed, prevAdmit, polled, display>>

Loop == RecvSuccess \/ RecvError \/ SelectDefault \/ Admit \/ RenderCheck
            \/ Stamp \/ StopCheck

Next ==
    \/ Tick
    \/ RecvSuccess
    \/ RecvError
    \/ SelectDefault
    \/ Admit
    \/ RenderCheck
    \/ Stamp
    \/ StopCheck
    \/ \E e \in Execs : Start(e)
    \/ \E e \in Execs, r \in NetResults : Respond(e, r)
    \/ \E e \in Execs : Deliver(e)

Spec == Init /\ [][Next]_vars

\* The Go scheduler runs every runnable goroutine and the clock advances:
\* the loop, the clock, and the executors' own steps are weakly fair.  The
\* network owes no answer (http.Client{} has no timeout): Respond is not.
FairSpec ==
    /\ Spec
    /\ WF_vars(Loop)
    /\ WF_vars(Tick)
    /\ \A e \in Execs : WF_vars(Start(e))
    /\ \A e \in Execs : WF_vars(Deliver(e))

\* ------------------------------------------------- printMetrics on its own
\* printMetrics as a function of its arguments: the arguments are drawn
\* from bounded sets and one call is made.
Latencies == {1, 2, 3}
Categories == {"500", "timeout"}
SeqsUpTo(S, n) == UNION {[1..k -> S] : k \in 0..n}
\* n, n-1, ..., 1: a sample sequence in descending order.
Ramp(n) == [i \in 1..n |-> n + 1 - i]
\* All short sequences, the sequence 10..50 of the percentile example in two
\* orders, and longer ones at the lengths where p*n is a whole number.
SampleSeqs ==
    SeqsUpTo(Latencies, MaxSamples)
        \cup {<<10, 20, 30, 40, 50>>, <<50, 10, 40, 20, 30>>}
        \cup {Ramp(10), Ramp(20)}
ErrorLists == SeqsUpTo(Categories, MaxErrs)

RenderInit ==
    /\ interval = MinInterval
    /\ duration = 0
    /\ address = "http://target"
    /\ headers = <<HGood>>
    /\ now = 0
    /\ started = 0
    /\ lastPrint = 0
    /\ limiter = [tokens |-> Burst * interval, last |-> 0]
    /\ successChannel = << >>
    /\ successDurations \in SampleSeqs
    /\ successCount = Len(successDurations)
    /\ errorsChannel = << >>
    /\ errors \in ErrorLists
    /\ errorCount = Len(errors)
    /\ requests = successCount + errorCount
    /\ pc = "call"
    /\ proc = "running"
    /\ ex = [e \in Execs |-> Idle]
    /\ sent = [e \in Execs |-> 0]
    /\ consumed = [e \in Execs |-> 0]
    /\ prevAdmit = 0
    /\ polled = 0
    /\ display = Blank

\* printMetrics(requests, successCount, errorCount, successDurations, errors,
\*              duration, elapsed, printTimes): slices.Sort works on the
\* caller's backing array.
RenderCall(printTimes) ==
    /\ pc = "call"
    /\ display' = printMetrics(requests, successCount, errorCount,
                               successDurations, errors, printTimes)
    /\ successDurations' = Sort(successDurations)
    /\ pc' = "returned"
    /\ UNCHANGED <<config, now, started, lastPrint, requests, limiter,
                   channels, successCount, errorCount, errors, proc, ex,
                   history>>

RenderNext == \E printTimes \in BOOLEAN : RenderCall(printTimes)

RenderSpec == RenderInit /\ [][RenderNext]_vars

\* -------------------------------------------------- the count-only variant
\* The variant with unbuffered channels of int: successChannel and
\* errorChannel carry no value worth keeping, a send completes only when the
\* loop's select receives it, and doRequest has no return statement.  The
\* channel variables of the buffered variant stay empty; consumed[e] counts
\* the values received from executor e.

\* The positions of doRequest at which it is blocked in a send.
ErrorSends == {"sendCreateErr", "sendDoErr", "sendStatusErr"}
SuccessSends == {"sendSuccess"}

At(e, st) == [ex EXCEPT ![e].st = st]

CountInit ==
    /\ interval \in Intervals
    /\ duration = 0
    /\ address \in Addresses
    /\ headers \in HeaderLists
    /\ now = 0
    /\ started = 0
    /\ lastPrint = 0
    /\ requests = 0
    /\ limiter = [tokens |-> Burst * interval, last |-> 0]
    /\ successChannel = << >>
    /\ successCount = 0
    /\ successDurations = << >>
    /\ errorsChannel = << >>
    /\ errorCount = 0
    /\ errors = << >>
    /\ pc = "select"
    /\ proc = "running"
    /\ ex = [e \in Execs |-> Idle]
    /\ sent = [e \in Execs |-> 0]
    /\ consumed = [e \in Execs |-> 0]
    /\ prevAdmit = 0
    /\ polled = 0
    /\ display = Blank

\* case <-successChannel: successCount++, the rendezvous with the send of
\* line 117; the sender runs on to the end of doRequest.
CountRecvSuccess(e) ==
    /\ Running
    /\ pc = "select"
    /\ ex[e].st \in SuccessSends
    /\ successCount' = successCount + 1
    /\ consumed' = [consumed EXCEPT ![e] = @ + 1]
    /\ ex' = At(e, "done")
    /\ UNCHANGED <<config, now, started, lastPrint, requests, limiter,
                   channels, successDurations, errorCount, errors, pc, proc,
                   sent, prevAdmit, polled, display>>

\* case <-errorChannel: errorCount++, the rendezvous with the send of line
\* 91, 109 or 114; the sender runs on to its next shared step: with a nil
\* req after line 91, to the status test of line 111 after line 109 (the
\* response that comes with an error is not a 200), to the send of line
\* 117 after line 114.
CountRecvError(e) ==
    /\ Running
    /\ pc = "select"
    /\ ex[e].st \in ErrorSends
    /\ errorCount' = errorCount + 1
    /\ consumed' = [consumed EXCEPT ![e] = @ + 1]
    /\ ex' = At(e, CASE ex[e].st = "sendCreateErr" -> "nilreq"
                      [] ex[e].st = "sendDoErr" -> "sendStatusErr"
                      [] ex[e].st = "sendStatusErr" -> "sendSuccess")
    /\ UNCHANGED <<config, now, started, lastPrint, requests, limiter,
                   channels, successCount, successDurations, errors, pc,
                   proc, sent, prevAdmit, polled, display>>

\* default: no sender is blocked on either channel.
CountSelectDefault ==
    /\ Running
    /\ pc = "select"
    /\ \A e \in Execs : ex[e].st \notin ErrorSends \cup SuccessSends
    /\ pc' = "admit"
    /\ UNCHANGED <<config, now, started, lastPrint, requests, limiter,
                   channels, sampler, proc, ex, history, display>>

\* if limiter.Allow() { go doRequest(...); requests++ }
CountAdmit ==
    /\ Running
    /\ pc = "admit"
    /\ IF AllowOk(limiter, now)
       THEN /\ limiter' = Take(limiter, now)
            /\ ex' = [ex EXCEPT ![requests + 1] =
                         [st |-> "new", start |-> 0, out |-> NoOutcome]]
            /\ requests' = requests + 1
            /\ prevAdmit' = now
       ELSE UNCHANGED <<limiter, ex, requests, prevAdmit>>
    /\ pc' = "render"
    /\ UNCHANGED <<config, now, started, lastPrint, channels, sampler, proc,
                   sent, consumed, polled, display>>

\* if time.Since(lastPrint) > 1*time.Second { clearScreen(); log.Printf(...) }
\* lastPrint is never assigned again.
CountPrint ==
    /\ Running
    /\ pc = "render"
    /\ display' = IF now - lastPrint > Second
                  THEN [Blank EXCEPT !.shown = TRUE,
                                     !.requests = requests,
                                     !.successCount = successCount,
                                     !.errorCount = errorCount]
                  ELSE display
    /\ pc' = "select"
    /\ UNCHANGED <<config, now, started, lastPrint, requests, limiter,
                   channels, sampler, proc, ex, history>>

\* req, err := http.NewRequest(...): on an error the goroutine blocks in
\* errorChannel <- 1; otherwise it sets the headers (a header without
\* exactly two parts is logged and skipped) and calls client.Do.
CountStart(e) ==
    /\ Running
    /\ ex[e].st = "new"
    /\ ex' = At(e, IF NewRequestFails(address) THEN "sendCreateErr"
                                               ELSE "net")
    /\ UNCHANGED <<config, now, started, lastPrint, requests, limiter,
                   channels, sampler, pc, proc, history, display>>

\* After the send of line 91 req is nil: req.Header.Set of line 99 or 102,
\* or else client.Do(req), dereferences it and the process panics.
CountNilRequest(e) ==
    /\ Running
    /\ ex[e].st = "nilreq"
    /\ ex' = At(e, "panicked")
    /\ proc' = "panic"
    /\ UNCHANGED <<config, now, started, lastPrint, requests, limiter,
                   channels, sampler, pc, history, display>>

\* resp, err := client.Do(req); io.Copy(io.Discard, resp.Body); then the
\* tests of err and of resp.StatusCode, neither of which returns.
CountRespond(e, r) ==
    /\ Running
    /\ ex[e].st = "net"
    /\ IF r = "transport"
       THEN /\ ex' = At(e, "panicked")
            /\ proc' = "panic"
       ELSE /\ ex' = At(e, IF r = "redirect" THEN "sendDoErr"
                           ELSE IF r = "200" THEN "sendSuccess"
                           ELSE "sendStatusErr")
            /\ UNCHANGED proc
    /\ UNCHANGED <<config, now, started, lastPrint, requests, limiter,
                   channels, sampler, pc, history, display>>

CountNext ==
    \/ Tick
    \/ \E e \in Execs : CountRecvSuccess(e)
    \/ \E e \in Execs : CountRecvError(e)
    \/ CountSelectDefault
    \/ CountAdmit
    \/ CountPrint
    \/ \E e \in Execs : CountStart(e)
    \/ \E e \in Execs : CountNilRequest(e)
    \/ \E e \in Execs, r \in NetResults : CountRespond(e, r)

CountSpec == CountInit /\ [][CountNext]_vars

\* ------------------------------------------------------------------ claims
\* Executors that were launched and have not sent their outcome.
Undelivered ==
    Cardinality({e \in Execs : ex[e].st \in {"new", "net", "send", "panicked"}})

\* Outcomes waiting in the two channels.
Queued == Len(successChannel) + Len(errorsChannel)

\* Entries of channel ch that executor e sent.
InChan(ch, e) == Cardinality({i \in DOMAIN ch : ch[i].id = e})

\* C1: in every reachable state, whatever the interleaving of the loop with
\* the executors, requests >= successCount + errorCount.
C1_RequestsBound == requests >= successCount + errorCount

\* C1 witness: outcomes of both kinds were ingested while a request is
\* still unresolved.
C1_Witness ==
    /\ successCount >= 1
    /\ errorCount >= 1
    /\ requests > successCount + errorCount

\* C2: every executor sends at most once, exactly once when it has finished,
\* on one channel; every outcome sent is either still queued or was ingested
\* exactly once; so requests = undelivered + queued + successCount +
\* errorCount, and the two collections are as long as their counters.
C2_ExactlyOnce ==
    /\ requests = Undelivered + Queued + successCount + errorCount
    /\ Len(successDurations) = successCount
    /\ Len(errors) = errorCount
    /\ \A e \in Execs :
          /\ sent[e] = (IF ex[e].st = "done" THEN 1 ELSE 0)
          /\ InChan(successChannel, e) + InChan(errorsChannel, e) + consumed[e]
                = sent[e]

\* C2 witness: one executor has not delivered, one outcome is queued and
\* one was ingested.
C2_Witness ==
    /\ requests = 3
    /\ Undelivered = 1
    /\ Queued = 1
    /\ successCount + errorCount = 1
    /\ \E e \in Execs : consumed[e] = 1

\* C3: a transport error of client.Do (an error and no response) is recorded
\* as one Failure Outcome and is never fatal: the process is never killed
\* by it.  (The model's only panic is the one of a nil response.)
C3_TransportErrorNotFatal ==
    /\ proc # "panic"
    /\ \A e \in Execs : ex[e].st # "panicked"

\* C4: the exit for a malformed header happens before any request is
\* issued: at that exit requests = 0 and no executor was launched.
C4_ExitBeforeAnyRequest ==
    proc = "exit1" => (requests = 0 /\ \A e \in Execs : ex[e].st = "idle")

\* C5: the loop is inside a periodic render only if at least one second has
\* elapsed since the last render.
C5_RenderOnlyAfterOneSecond ==
    pc = "stamp" => now - lastPrint >= Second

\* With runDuration > 0 the process always ends: by the loop's exit 0, unless
\* an executor ended it first (holds under FairSpec).
EndsOnceDurationElapsed == (duration > 0) ~> (~Running)

\* C6: with runDuration > 0 the loop eventually renders the final snapshot
\* and stops with exit status 0, whatever the executors do.
C6_EventuallyStopped == (duration > 0) ~> (proc = "exit0")

\* The part of C7 about exit status 0 alone: the loop stops only with
\* runDuration > 0 and more than runDuration elapsed.
StoppedOnlyAfterDuration ==
    proc = "exit0" => (duration > 0 /\ now - started > duration)

\* C7: the loop never stops with status 0 while elapsed <= runDuration, and
\* with runDuration = 0 it never stops: it stays RUNNING.
C7_StopsOnlyAfterDuration ==
    /\ StoppedOnlyAfterDuration
    /\ duration = 0 => Running

\* C8: the dispatch loop never blocks: in every RUNNING state, full channels
\* and suspended or blocked executors included, the loop has an enabled
\* step, and as long as the process runs admission checks keep occurring.
C8_LoopNeverBlocks ==
    /\ [](Running => ENABLED Loop)
    /\ (<>(~Running) \/ []<><<Admit>>_vars)

\* C8 witness: both channels are full, an executor is blocked delivering,
\* and the loop is RUNNING.
C8_Witness ==
    /\ Running
    /\ Len(successChannel) = ChanCap
    /\ Len(errorsChannel) = ChanCap
    /\ \E e \in Execs : ex[e].st = "send"

\* The executors leave a full channel alone: it changes only by the loop
\* taking its head.
FullChannelKept(ch, chNext) ==
    Len(ch) = ChanCap => (chNext = ch \/ chNext = Tail(ch))

\* C9: no channel ever holds more than its capacity; a sender that finds
\* its channel full neither drops nor overwrites; and while the loop is
\* RUNNING every outcome an executor has to deliver is eventually ingested.
C9_BlockOnFull ==
    /\ [](Len(successChannel) <= ChanCap /\ Len(errorsChannel) <= ChanCap)
    /\ [][/\ FullChannelKept(successChannel, successChannel')
          /\ FullChannelKept(errorsChannel, errorsChannel')]_vars
    /\ \A e \in Execs :
          (ex[e].st = "send") ~> (consumed[e] = 1 \/ ~Running)

\* C9 witness: an executor waits with a Failure on the full errorsChannel.
C9_Witness ==
    /\ Running
    /\ Len(errorsChannel) = ChanCap
    /\ \E e \in Execs : ex[e].st = "send" /\ ex[e].out.kind = "err"

\* C10: an admission check launches and counts one request iff the bucket
\* holds a token, and the launch consumes the token; nothing else changes
\* requests; and two admissions are never closer than 1/targetRate.
C10_TokenBucket ==
    [][/\ (pc = "admit" /\ pc' = "render") =>
             /\ (requests' = requests + 1) <=> AllowOk(limiter, now)
             /\ (requests' = requests + 1) => ~AllowOk(limiter', now)
             /\ requests' \in {requests, requests + 1}
       /\ ~(pc = "admit" /\ pc' = "render") => requests' = requests
       /\ (requests' # requests /\ requests > 0) =>
             now - prevAdmit >= interval]_vars

\* C10 witness: the loop polled the limiter again within the interval of
\* the second admission and was refused.
C10_Witness ==
    /\ requests = 2
    /\ pc = "render"
    /\ now - prevAdmit < interval
    /\ now > prevAdmit

\* The elements of a sequence.
Range(s) == {s[i] : i \in DOMAIN s}

\* s is in ascending order.
Ascending(s) == \A i, j \in DOMAIN s : i <= j => s[i] <= s[j]

\* The samples of s that are at most x.
AtMost(s, x) == Cardinality({i \in DOMAIN s : s[i] <= x})

\* Nearest rank: the least sample x such that at least p percent of the
\* samples are at most x.
NearestRank(s, p) ==
    CHOOSE x \in Range(s) :
        /\ 100 * AtMost(s, x) >= p * Len(s)
        /\ \A y \in Range(s) : 100 * AtMost(s, y) >= p * Len(s) => x <= y

\* clamp(ceil(p*n) - 1, 0, n - 1) as a 1-based index, ceil(p*n) being the
\* least k with k >= p*n.
RankIndex(n, p) ==
    LET k == CHOOSE k \in 0..n : 100 * k >= p * n /\ 100 * (k - 1) < p * n
    IN IF k < 1 THEN 1 ELSE IF k > n THEN n ELSE k

\* The call of printMetrics has returned and printed the latency line for
\* a non-empty sample set.
Reported ==
    pc = "returned" /\ display.latency /\ successDurations # << >>

\* C11: for a non-empty sample set, sorted ascending by the call, and p in
\* {0.50, 0.90, 0.95, 0.99}, percentile(p) is the element at index
\* clamp(ceil(p*n) - 1, 0, n - 1), the nearest rank; for 10..50 ms p90 is
\* 50 and p50 is 30.
C11_NearestRank ==
    Reported =>
        LET s == successDurations
            n == Len(successDurations)
        IN /\ Ascending(s)
           /\ display.p90 = s[RankIndex(n, 90)]
           /\ display.p95 = s[RankIndex(n, 95)]
           /\ display.p99 = s[RankIndex(n, 99)]
           /\ percentile(s, 50) = s[RankIndex(n, 50)]
           /\ display.p90 = NearestRank(s, 90)
           /\ display.p95 = NearestRank(s, 95)
           /\ display.p99 = NearestRank(s, 99)
           /\ percentile(s, 50) = NearestRank(s, 50)
           /\ Range(s) = {10, 20, 30, 40, 50} /\ n = 5 =>
                 display.p90 = 50 /\ percentile(s, 50) = 30

\* C11 witness: the example, handed over unsorted, was reported.
C11_Witness ==
    /\ Reported
    /\ successDurations = <<10, 20, 30, 40, 50>>
    /\ display.p90 = 50

\* C12: with no latency sample the call returns, and every percentile and
\* the average are zero; with samples the average is their sum divided by
\* their number (in time.Duration's integer arithmetic).
C12_EmptyIsZero ==
    /\ pc = "call" /\ successDurations = << >> => ENABLED RenderNext
    /\ pc = "returned" =>
          LET s == successDurations
              n == Len(successDurations)
              total == SumOver(s, DOMAIN s)
          IN /\ display.shown
             /\ n = 0 =>
                   /\ display.avg = 0
                   /\ display.p90 = 0 /\ display.p95 = 0 /\ display.p99 = 0
                   /\ \A p \in {50, 90, 95, 99} : percentile(s, p) = 0
             /\ n > 0 =>
                   /\ display.avg * n <= total
                   /\ total < (display.avg + 1) * n

\* C12 witness: the latency line was printed for an empty sample set.
C12_Witness ==
    /\ pc = "returned"
    /\ successDurations = << >>
    /\ display.shown
    /\ display.latency

\* The loop calls printMetrics in this step (periodic or final render).
RenderStep ==
    \/ pc = "render" /\ pc' = "stamp"
    \/ proc = "running" /\ proc' = "exit0"

\* Occurrences of category k in the list errs.
Occurrences(errs, k) == Cardinality({i \in DOMAIN errs : errs[i] = k})

\* C13: the error breakdown a render reports has, for each category among
\* the ingested Failures, the number of ingested Failures of that category,
\* and nothing else; the reported counts sum to errorCount.
C13_ErrorBreakdown ==
    [][RenderStep =>
         /\ display'.errorLines =
               {<<k, Occurrences(errors, k)>> : k \in Range(errors)}
         /\ \A l \in display'.errorLines : l[2] > 0
         /\ SumOver([l \in display'.errorLines |-> l[2]],
                    display'.errorLines) = errorCount]_vars

\* C13 witness: two Failures of one category and one of another were
\* ingested and reported.
C13_Witness ==
    display.errorLines = {<<"500", 2>>, <<"Error making request", 1>>}

\* C14: a render leaves requests, successCount, errorCount, the error list
\* and the latency sample sequence of the loop as they were.
C14_RenderKeepsSampler ==
    [][RenderStep =>
         UNCHANGED <<requests, successCount, errorCount, errors,
                     successDurations>>]_vars

\* C15: the latency percentiles are on the terminal only after the final
\* render, the one that ends in STOPPED, and nothing happens after it.
C15_PercentilesOnFinalOnly ==
    /\ display.latency <=> proc = "exit0"
    /\ proc = "exit0" => ~ENABLED Next

\* C15 witness: the run stopped, periodic renders came first, and the final
\* render printed percentiles of ingested samples.
C15_Witness ==
    /\ proc = "exit0"
    /\ lastPrint > 0
    /\ display.latency
    /\ display.p99 > 0

\* C19: for a non-empty sample set min <= p90 <= p95 <= p99 <= max, each
\* percentile is one of the samples, and with a single sample all of them
\* equal it.
C19_PercentilesMonotone ==
    Reported =>
        LET S == Range(successDurations)
            lo == CHOOSE x \in S : \A y \in S : x <= y
            hi == CHOOSE x \in S : \A y \in S : y <= x
        IN /\ {display.p90, display.p95, display.p99} \subseteq S
           /\ lo <= display.p90
           /\ display.p90 <= display.p95
           /\ display.p95 <= display.p99
           /\ display.p99 <= hi
           /\ Len(successDurations) = 1 =>
                 /\ display.p90 = successDurations[1]
                 /\ display.p95 = successDurations[1]
                 /\ display.p99 = successDurations[1]

\* C19 witness: twenty distinct samples were reported with three distinct
\* percentiles.
C19_Witness ==
    /\ Reported
    /\ Len(successDurations) = 20
    /\ display.p90 < display.p95
    /\ display.p95 < display.p99

\* C16: in the count-only variant requests >= successCount + errorCount in
\* every reachable state, and a doRequest that ran to its end contributed
\* to exactly one of the two counts, whatever the result of the request.
C16_OneCountPerRequest ==
    /\ requests >= successCount + errorCount
    /\ \A e \in Execs : consumed[e] <= 1
    /\ \A e \in Execs : ex[e].st = "done" => consumed[e] = 1

\* What doRequest has to deliver for the result r of client.Do, started at
\* time t0 and answered at time t.
Classified(r, t0, t) ==
    IF r = "200" THEN Success(t - t0)
    ELSE IF r \in {"transport", "redirect"} THEN Failure("Error making request")
    ELSE Failure(r)

\* C17: classification is exclusive and exhaustive: status 200 gives only a
\* Success with the elapsed latency, any other status only a Failure named
\* by the status code, a creation or transport error only a Failure with a
\* request-error category.
C17_Classification ==
    [][\A e \in Execs :
         /\ \A r \in NetResults :
               Respond(e, r) =>
                   /\ ex'[e].st = "send"
                   /\ ex'[e].out = Classified(r, ex[e].start, now)
         /\ (Start(e) /\ NewRequestFails(address)) =>
               /\ ex'[e].st = "send"
               /\ ex'[e].out = Failure("Error creating request")]_vars

\* C18: an iteration that finds an outcome on either channel ingests
\* exactly one and does nothing else; admission, render and stop check
\* happen only in iterations that found both channels empty.
C18_DrainFirst ==
    [][/\ (pc = "select" /\ Queued > 0 /\ Loop) =>
             /\ Queued' = Queued - 1
             /\ successCount' + errorCount' = successCount + errorCount + 1
             /\ pc' = "select"
             /\ UNCHANGED <<requests, limiter, lastPrint, display, proc>>
       /\ (pc = "select" /\ pc' # "select") => Queued = 0
       /\ (requests' # requests \/ lastPrint' # lastPrint
              \/ display' # display \/ proc' = "exit0") =>
             (pc # "select" /\ successCount + errorCount = polled)]_vars

\* C18 witness: an outcome is waiting while the limiter holds a token, at
\* the top of an iteration.
C18_Witness ==
    /\ Running
    /\ pc = "select"
    /\ Queued > 0
    /\ requests > 0
    /\ AllowOk(limiter, now)

\* C20: the final report is made in an iteration whose poll found both
\* channels empty: every outcome sent before that poll is counted in the
\* final snapshot, and requests - (successCount + errorCount) at STOPPED is
\* the number of executors that had not delivered by the poll.
C20_FinalCountsAllPolled ==
    /\ pc # "select" => successCount + errorCount = polled
    /\ proc = "exit0" =>
          /\ display.successCount + display.errorCount = polled
          /\ display.requests = requests
          /\ requests - (successCount + errorCount) = Undelivered + Queued

\* C20 witness: the run stopped while one outcome, delivered after the
\* last poll, waits uncounted and another executor never delivered.
C20_Witness ==
    /\ proc = "exit0"
    /\ polled >= 1
    /\ Queued >= 1
    /\ Undelivered >= 1

=============================================================================
